---- MODULE Spec2Model ----
(***************************************************************************)
(* Model of PyWO's core.py: the EventDispatcher thread and its registry    *)
(* self.__handlers = {win_id: {event_type: handler}}.                      *)
(*                                                                         *)
(* A Python dict is a TLA+ function whose DOMAIN is the set of its keys.   *)
(* Spec interleaves whole register/unregister calls of one caller with     *)
(* the statements of the dispatcher thread (run and __dispatch).           *)
(***************************************************************************)
EXTENDS Integers, FiniteSets, Sequences, TLC

VARIABLES
    handlers,      \* self.__handlers: window id -> (event type -> handler)
    d_pc,          \* position of the dispatcher thread (Thread state and line of run/__dispatch)
    event,         \* __dispatch's parameter: the event being dispatched
    win_handlers,  \* __dispatch's local win_handlers once it no longer is the dict stored in handlers
    wh_live,       \* TRUE while the local win_handlers is the very dict object stored at handlers[event.window]
    invoked,       \* the handle_event call made by the step just taken (line 268), if any
    exit_cause,    \* why the dispatcher thread ended: "none", "empty", "KeyError", "HandlerError"
    thr,           \* SpecConc: each caller thread's position in register/unregister and its locals
    base,          \* SpecConc: the registry when the calls now in progress began
    batches,       \* SpecConc: how many rounds of concurrent calls have ended
    event_mask,    \* the event mask last set on each window (change_attributes, line 340)
    geo,           \* SpecGeom: one geometry call: its operation, its inputs and its result
    call           \* the last completed register/unregister call: its arguments, what it
                   \* returned or raised, the window's entry before it (known, pre) and
                   \* whether the dispatcher was inside __dispatch when it ran (inflight)

vars == <<handlers, d_pc, event, win_handlers, wh_live, invoked, exit_cause, call,
          thr, base, batches, event_mask, geo>>
cvars == <<thr, base, batches>>
gvars == <<event_mask, geo>>

\* ------------------------------------------------------------------ inputs
Windows == {"w1", "w2"}
Types == {"A", "B"}
None == "None"
\* Event handlers supplied by callers: h0 declares no event type, h3 shares
\* a type with h1 and with h2 (and its mask with h2).
Handlers == {"h0", "h1", "h2", "h3"}

HMask(h) ==
    CASE h = "h1" -> 1
      [] h = "h2" -> 2
      [] h = "h3" -> 2
      [] h = "h0" -> 4

HTypes(h) ==
    CASE h = "h1" -> {"A"}
      [] h = "h2" -> {"B"}
      [] h = "h3" -> {"A", "B"}
      [] h = "h0" -> {}

Events == [window : Windows, type : Types]
NoEvent == [window |-> "none", type |-> "none"]
NoInvocation == [handler |-> "none", window |-> "none", type |-> "none"]
NoCall == [op |-> "none", w |-> "none", h |-> "none", ret |-> {}, err |-> "none",
           known |-> FALSE, pre |-> [k \in {} |-> "None"], inflight |-> FALSE]

\* ------------------------------------------------------------------ dicts
EmptyDict == [k \in {} |-> None]

\* d[k] = v
DictSet(d, k, v) == [x \in DOMAIN d \cup {k} |-> IF x = k THEN v ELSE d[x]]

\* del d[k]
DictDel(d, k) == [x \in DOMAIN d \ {k} |-> d[x]]

\* set([handler.mask for handler in d.values()])
Masks(d) == {HMask(d[t]) : t \in DOMAIN d}

\* what the registry held for window w when a call began (recorded with the call)
Before(reg, w) == IF w \in DOMAIN reg THEN reg[w] ELSE EmptyDict

\* ------------------------------------------------------------------ thread
\* Thread.isAlive(): started and not yet stopped
IsAlive == d_pc \notin {"new", "stopped"}

\* the dispatcher is inside __dispatch
InDispatch == d_pc \in {"l261", "l264", "l265", "l268"}

\* the dispatcher is inside the while loop of run
LoopActive == d_pc \in {"while", "sleep", "pending", "l261", "l264", "l265", "l268"}

\* ------------------------------------------------------------------ register
\* (mutant of SetTypes: a type that has a handler keeps it)
SetTypesKeepExisting(d, h) ==
    [t \in DOMAIN d \cup HTypes(h) |-> IF t \in DOMAIN d THEN d[t] ELSE h]

\* lines 228-229: for type in handler.types: self.__handlers[window.id][type] = handler
SetTypes(d, h) ==
    [t \in DOMAIN d \cup HTypes(h) |-> IF t \in HTypes(h) THEN h ELSE d[t]]

\* lines 226-229: the registry after register(w, h)
RegisterEffect(reg, w, h) ==
    LET reg1 == IF w \notin DOMAIN reg THEN DictSet(reg, w, EmptyDict) ELSE reg
    IN  DictSet(reg1, w, SetTypes(reg1[w], h))

\* lines 231-232: if not self.isAlive(): self.start(). A Thread can be
\* started once only: start() on a thread that has run raises RuntimeError.
StartError == ~IsAlive /\ d_pc # "new"

\* lines 222-234: register(window, handler)
RegisterCall(w, h) ==
    /\ UNCHANGED cvars
    /\ handlers' = RegisterEffect(handlers, w, h)
    /\ d_pc' = IF d_pc = "new" THEN "while" ELSE d_pc
    /\ call' = [op |-> "register", w |-> w, h |-> h,
                ret |-> IF StartError THEN {} ELSE Masks(handlers'[w]),
                err |-> IF StartError THEN "RuntimeError" ELSE "none",
                known |-> w \in DOMAIN handlers, pre |-> Before(handlers, w),
                inflight |-> InDispatch]
    /\ invoked' = NoInvocation
    /\ UNCHANGED <<event, win_handlers, wh_live, exit_cause>>

\* register called directly: no window's event mask is set
Register(w, h) == RegisterCall(w, h) /\ UNCHANGED gvars

\* ------------------------------------------------------------------ unregister
\* (mutant of DelTypes: every type of the window is deleted)
DelTypesAll(d, h) == EmptyDict

\* lines 248-250: for type in handler.types: if type in d: del d[type]
DelTypes(d, h) == [t \in DOMAIN d \ HTypes(h) |-> d[t]]

\* lines 242-250: the registry before the emptiness test of line 251
UnregisterBody(reg, w, h) ==
    IF w \notin DOMAIN reg THEN reg
    ELSE IF h = None THEN DictSet(reg, w, EmptyDict)
    ELSE DictSet(reg, w, DelTypes(reg[w], h))

\* line 251 reads self.__handlers[window.id]: KeyError when the window has no entry
UnregisterError(reg, w) == w \notin DOMAIN reg

\* (mutant of UnregisterEffect: an emptied window keeps its entry)
UnregisterEffectKeepsWindow(reg, w, h) == UnregisterBody(reg, w, h)

\* lines 242-252: the registry after unregister(w, h)
UnregisterEffect(reg, w, h) ==
    LET reg1 == UnregisterBody(reg, w, h)
    IN  IF UnregisterError(reg, w) THEN reg
        ELSE IF reg1[w] = EmptyDict THEN DictDel(reg1, w)
        ELSE reg1

\* (mutant of UnregisterReturn: the masks are collected before the removal)
UnregisterReturnStale(reg, w, h) ==
    LET reg1 == UnregisterBody(reg, w, h)
    IN  IF UnregisterError(reg, w) THEN {}
        ELSE IF reg1[w] = EmptyDict THEN {}
        ELSE Masks(reg[w])

\* lines 254, 256: what unregister returns
UnregisterReturn(reg, w, h) ==
    LET reg1 == UnregisterBody(reg, w, h)
    IN  IF UnregisterError(reg, w) THEN {}
        ELSE IF reg1[w] = EmptyDict THEN {}
        ELSE Masks(reg1[w])

\* The dict object the dispatcher holds in win_handlers stops being the one
\* stored in the registry when line 244 stores a new dict or line 252 deletes
\* the entry; the dispatcher then keeps the old object with its contents.
Detaches(reg, w, h) ==
    /\ wh_live
    /\ event.window = w
    /\ w \in DOMAIN reg
    /\ (h = None \/ w \notin DOMAIN UnregisterEffect(reg, w, h))

DetachedDict(reg, w, h) == IF h = None THEN reg[w] ELSE EmptyDict

\* lines 236-257: unregister(window, handler)
UnregisterCall(w, h) ==
    /\ UNCHANGED cvars
    /\ handlers' = UnregisterEffect(handlers, w, h)
    /\ call' = [op |-> "unregister", w |-> w, h |-> h,
                ret |-> UnregisterReturn(handlers, w, h),
                err |-> IF UnregisterError(handlers, w) THEN "KeyError" ELSE "none",
                known |-> w \in DOMAIN handlers, pre |-> Before(handlers, w),
                inflight |-> InDispatch]
    /\ IF Detaches(handlers, w, h)
       THEN wh_live' = FALSE /\ win_handlers' = DetachedDict(handlers, w, h)
       ELSE UNCHANGED <<wh_live, win_handlers>>
    /\ invoked' = NoInvocation
    /\ UNCHANGED <<d_pc, event, exit_cause>>

\* unregister called directly: no window's event mask is set
Unregister(w, h) == UnregisterCall(w, h) /\ UNCHANGED gvars

\* ------------------------------------------------------------------ run
\* (mutant of RunCheck: the loop is left while one window is still registered)
RunCheckOneLeft ==
    /\ UNCHANGED <<cvars, gvars>>
    /\ d_pc = "while"
    /\ d_pc' = IF Cardinality(DOMAIN handlers) > 1 THEN "sleep" ELSE "l220"
    /\ invoked' = NoInvocation
    /\ UNCHANGED <<handlers, event, win_handlers, wh_live, exit_cause, call>>

\* line 215: while self.__handlers
RunCheck ==
    /\ UNCHANGED <<cvars, gvars>>
    /\ d_pc = "while"
    /\ d_pc' = IF DOMAIN handlers # {} THEN "sleep" ELSE "l220"
    /\ invoked' = NoInvocation
    /\ UNCHANGED <<handlers, event, win_handlers, wh_live, exit_cause, call>>

\* line 216: time.sleep(0.005)
Sleep ==
    /\ UNCHANGED <<cvars, gvars>>
    /\ d_pc = "sleep"
    /\ d_pc' = "pending"
    /\ invoked' = NoInvocation
    /\ UNCHANGED <<handlers, event, win_handlers, wh_live, exit_cause, call>>

\* line 217: self.__display.pending_events() is 0
PendingNone ==
    /\ UNCHANGED <<cvars, gvars>>
    /\ d_pc = "pending"
    /\ d_pc' = "while"
    /\ invoked' = NoInvocation
    /\ UNCHANGED <<handlers, event, win_handlers, wh_live, exit_cause, call>>

\* lines 217, 219: an event is pending; next_event() hands it to __dispatch
NextEvent(e) ==
    /\ UNCHANGED <<cvars, gvars>>
    /\ d_pc = "pending"
    /\ d_pc' = "l261"
    /\ event' = e
    /\ invoked' = NoInvocation
    /\ UNCHANGED <<handlers, win_handlers, wh_live, exit_cause, call>>

\* line 220: the loop is left, the thread ends
RunExit ==
    /\ UNCHANGED <<cvars, gvars>>
    /\ d_pc = "l220"
    /\ d_pc' = "stopped"
    /\ exit_cause' = "empty"
    /\ invoked' = NoInvocation
    /\ UNCHANGED <<handlers, event, win_handlers, wh_live, call>>

\* ------------------------------------------------------------------ __dispatch
\* the dict the local win_handlers refers to
WinHandlers == IF wh_live THEN handlers[event.window] ELSE win_handlers

\* __dispatch returns to the loop of run, its locals are gone
DispatchReturns ==
    /\ d_pc' = "pending"
    /\ event' = NoEvent
    /\ win_handlers' = EmptyDict
    /\ wh_live' = FALSE

\* an exception leaves __dispatch and run: the thread ends
DispatchRaises(cause) ==
    /\ d_pc' = "stopped"
    /\ exit_cause' = cause
    /\ event' = NoEvent
    /\ win_handlers' = EmptyDict
    /\ wh_live' = FALSE

\* lines 261-263: if event.window.id not in self.__handlers: log, return
D261 ==
    /\ UNCHANGED <<cvars, gvars>>
    /\ d_pc = "l261"
    /\ IF event.window \notin DOMAIN handlers
       THEN DispatchReturns /\ UNCHANGED exit_cause
       ELSE d_pc' = "l264" /\ UNCHANGED <<event, win_handlers, wh_live, exit_cause>>
    /\ invoked' = NoInvocation
    /\ UNCHANGED <<handlers, call>>

\* line 264: win_handlers = self.__handlers[event.window.id]
D264 ==
    /\ UNCHANGED <<cvars, gvars>>
    /\ d_pc = "l264"
    /\ IF event.window \notin DOMAIN handlers
       THEN DispatchRaises("KeyError")
       ELSE /\ d_pc' = "l265"
            /\ wh_live' = TRUE
            /\ UNCHANGED <<event, win_handlers, exit_cause>>
    /\ invoked' = NoInvocation
    /\ UNCHANGED <<handlers, call>>

\* lines 265-267: if not event.type in win_handlers: return
D265 ==
    /\ UNCHANGED <<cvars, gvars>>
    /\ d_pc = "l265"
    /\ IF event.type \notin DOMAIN WinHandlers
       THEN DispatchReturns /\ UNCHANGED exit_cause
       ELSE d_pc' = "l268" /\ UNCHANGED <<event, win_handlers, wh_live, exit_cause>>
    /\ invoked' = NoInvocation
    /\ UNCHANGED <<handlers, call>>

\* line 268: win_handlers[event.type] has no such key
D268Missing ==
    /\ UNCHANGED <<cvars, gvars>>
    /\ d_pc = "l268"
    /\ event.type \notin DOMAIN WinHandlers
    /\ DispatchRaises("KeyError")
    /\ invoked' = NoInvocation
    /\ UNCHANGED <<handlers, call>>

\* the handler line 268 looks up
Lookup == WinHandlers[event.type]

Invocation ==
    [handler |-> Lookup, window |-> event.window, type |-> event.type]

\* line 268: win_handlers[event.type].handle_event(event) returns
D268Handled ==
    /\ UNCHANGED <<cvars, gvars>>
    /\ d_pc = "l268"
    /\ event.type \in DOMAIN WinHandlers
    /\ invoked' = Invocation
    /\ DispatchReturns
    /\ UNCHANGED <<handlers, exit_cause, call>>

\* line 268: handle_event raises; nothing in __dispatch or run catches it
D268Raised ==
    /\ UNCHANGED <<cvars, gvars>>
    /\ d_pc = "l268"
    /\ event.type \in DOMAIN WinHandlers
    /\ invoked' = Invocation
    /\ DispatchRaises("HandlerError")
    /\ UNCHANGED <<handlers, call>>

\* no geometry call is modelled outside SpecGeom
NoGeo == [op |-> "none"]

\* ------------------------------------------------------------------ callers
\* the caller threads of SpecConc and their state between calls
Callers == {"c1", "c2"}

IdleCaller == [pc |-> "idle", op |-> "none", w |-> "none", h |-> "none",
               todo |-> {}, cur |-> "none", err |-> "none"]

\* ------------------------------------------------------------------ Spec
Init ==
    /\ handlers = [w \in {} |-> EmptyDict]
    /\ d_pc = "new"
    /\ event = NoEvent
    /\ win_handlers = EmptyDict
    /\ wh_live = FALSE
    /\ invoked = NoInvocation
    /\ exit_cause = "none"
    /\ call = NoCall
    /\ thr = [c \in Callers |-> IdleCaller]
    /\ base = handlers
    /\ batches = 0
    /\ event_mask = [w \in Windows |-> 0]
    /\ geo = NoGeo

Next ==
    \/ \E w \in Windows, h \in Handlers : Register(w, h)
    \/ \E w \in Windows, h \in Handlers \cup {None} : Unregister(w, h)
    \/ RunCheck
    \/ Sleep
    \/ PendingNone
    \/ \E e \in Events : NextEvent(e)
    \/ RunExit
    \/ D261
    \/ D264
    \/ D265
    \/ D268Missing
    \/ D268Handled
    \/ D268Raised

Spec == Init /\ [][Next]_vars

\* the steps of the dispatcher thread (run and __dispatch)
DispatcherNext ==
    \/ RunCheck
    \/ Sleep
    \/ PendingNone
    \/ \E e \in Events : NextEvent(e)
    \/ RunExit
    \/ D261
    \/ D264
    \/ D265
    \/ D268Missing
    \/ D268Handled
    \/ D268Raised

\* ------------------------------------------------------------------ SpecListen
\* a | b on non-negative integers
RECURSIVE BitOr(_, _)
BitOr(a, b) ==
    IF a = 0 THEN b
    ELSE IF b = 0 THEN a
    ELSE (IF a % 2 = 1 \/ b % 2 = 1 THEN 1 ELSE 0) + 2 * BitOr(a \div 2, b \div 2)

\* lines 336-339: event_mask = 0; for mask in masks: event_mask |= mask
RECURSIVE OrAll(_)
OrAll(masks) ==
    IF masks = {} THEN 0
    ELSE LET mask == CHOOSE x \in masks : TRUE
         IN  BitOr(OrAll(masks \ {mask}), mask)

\* lines 334-340: __set_event_mask(masks) on window w
SetEventMask(w, masks) == [event_mask EXCEPT ![w] = OrAll(masks)]

\* lines 320-323: listen(event_handler). An exception of register leaves
\* the method before __set_event_mask.
Listen(w, h) ==
    /\ RegisterCall(w, h)
    /\ event_mask' = IF StartError THEN event_mask ELSE SetEventMask(w, call'.ret)
    /\ UNCHANGED geo

\* lines 325-332: unlisten(event_handler=None). An exception of unregister
\* leaves the method before __set_event_mask.
Unlisten(w, h) ==
    /\ UnregisterCall(w, h)
    /\ event_mask' = IF UnregisterError(handlers, w) THEN event_mask
                      ELSE SetEventMask(w, call'.ret)
    /\ UNCHANGED geo

NextListen ==
    \/ \E w \in Windows, h \in Handlers : Listen(w, h)
    \/ \E w \in Windows, h \in Handlers \cup {None} : Unlisten(w, h)
    \/ DispatcherNext

SpecListen == Init /\ [][NextListen]_vars

\* ------------------------------------------------------------------ SpecLive
\* Spec with a dispatcher thread that keeps being scheduled (every
\* handle_event call ends) and an event source that is found drained, at
\* line 217, again and again.
\* callers use two handlers with one event type each
LiveHandlers == {"h1", "h2"}

NextLive ==
    \/ \E w \in Windows, h \in LiveHandlers : Register(w, h)
    \/ \E w \in Windows, h \in LiveHandlers \cup {None} : Unregister(w, h)
    \/ DispatcherNext

SpecLive ==
    Init /\ [][NextLive]_vars /\ WF_vars(DispatcherNext) /\ SF_vars(PendingNone)

\* ------------------------------------------------------------------ geometry
\* Sizes, borders and hints are integers. Gravity components are kept in
\* halves (0, 1, 2 stand for 0, 1/2, 1) and the positions of a configure
\* request in half pixels, so that products with a gravity stay integers.

\* Python 2 integer division: the floor of a / b, for either sign of b
PyDiv(a, b) == IF b > 0 THEN a \div b ELSE (0 - a) \div (0 - b)

\* Python a % b: the remainder has the sign of b
PyMod(a, b) == a - b * PyDiv(a, b)

\* min([a, b]) and max([a, b])
Min2(a, b) == IF a <= b THEN a ELSE b
Max2(a, b) == IF a >= b THEN a ELSE b

\* get_wm_normal_hints() returned None
NoHints ==
    [present |-> FALSE, win_gravity |-> "NorthWestGravity",
     min_width |-> 0, min_height |-> 0, max_width |-> 0, max_height |-> 0,
     width_inc |-> 0, height_inc |-> 0, base_width |-> 0, base_height |-> 0]

\* `hints and hints.f`: the hints exist and field f is not zero
Has(hints, f) == hints.present /\ hints[f] # 0

\* (mutant of ClampedWidth: the min clamp is applied before the max clamp)
ClampedWidthMinFirst(g) ==
    LET width == g.geometry.width - (g.borders.left + g.borders.right)
        w1    == IF Has(g.hints, "min_width")
                 THEN Max2(width, g.hints.min_width) ELSE width
    IN  IF Has(g.hints, "max_width") THEN Min2(w1, g.hints.max_width) ELSE w1

\* lines 589, 599-600 and 604-605: the content width after the max and min clamps
ClampedWidth(g) ==
    LET width == g.geometry.width - (g.borders.left + g.borders.right)
        w1    == IF Has(g.hints, "max_width")
                 THEN Min2(width, g.hints.max_width) ELSE width
    IN  IF Has(g.hints, "min_width") THEN Max2(w1, g.hints.min_width) ELSE w1

\* lines 610-613: the base the width increments are counted from
BaseWidth(g) ==
    IF g.hints.base_width # 0 THEN g.hints.base_width
    ELSE PyMod(g.current.width, g.hints.width_inc)

\* (mutant of SnappedWidth: the base is not added back)
SnappedWidthNoBase(g) ==
    PyDiv(ClampedWidth(g) - BaseWidth(g), g.hints.width_inc) * g.hints.width_inc

\* lines 614-615: width = ((width - base) / width_inc) * width_inc; width += base
SnappedWidth(g) ==
    PyDiv(ClampedWidth(g) - BaseWidth(g), g.hints.width_inc) * g.hints.width_inc
        + BaseWidth(g)

\* (mutant of FinalWidth: no increment is added to a snapped width below
\* min_width)
FinalWidthNoCorrection(g) ==
    IF Has(g.hints, "width_inc") THEN SnappedWidth(g) ELSE ClampedWidth(g)

\* lines 589-617: the content width of the configure request
FinalWidth(g) ==
    IF Has(g.hints, "width_inc")
    THEN IF g.hints.min_width # 0 /\ SnappedWidth(g) < g.hints.min_width
         THEN SnappedWidth(g) + g.hints.width_inc
         ELSE SnappedWidth(g)
    ELSE ClampedWidth(g)

\* lines 590, 601-602 and 606-607: the content height after the max and min clamps
ClampedHeight(g) ==
    LET height == g.geometry.height - (g.borders.top + g.borders.bottom)
        h1     == IF Has(g.hints, "max_height")
                  THEN Min2(height, g.hints.max_height) ELSE height
    IN  IF Has(g.hints, "min_height") THEN Max2(h1, g.hints.min_height) ELSE h1

\* lines 619-622: the base the height increments are counted from
BaseHeight(g) ==
    IF g.hints.base_height # 0 THEN g.hints.base_height
    ELSE PyMod(g.current.height, g.hints.height_inc)

\* lines 623-624: height = ((height - base) / height_inc) * height_inc; height += base
SnappedHeight(g) ==
    PyDiv(ClampedHeight(g) - BaseHeight(g), g.hints.height_inc) * g.hints.height_inc
        + BaseHeight(g)

\* lines 590-626: the content height of the configure request.
\* Line 625 tests hints.height_inc, which is not zero here, where line 616
\* tests hints.min_width.
FinalHeight(g) ==
    IF Has(g.hints, "height_inc")
    THEN IF g.hints.height_inc # 0 /\ SnappedHeight(g) < g.hints.min_height
         THEN SnappedHeight(g) + g.hints.height_inc
         ELSE SnappedHeight(g)
    ELSE ClampedHeight(g)

\* line 595: if hints and hints.win_gravity == X.StaticGravity
IsStatic(g) == g.hints.present /\ g.hints.win_gravity = "StaticGravity"

\* (mutant of Anchored: the position is not adjusted)
AnchoredNowhere(start, requested, final, gravity) == 2 * start

\* lines 629-630: x = x + (geometry_size[0] - width) * on_resize.x, in half
\* pixels; likewise y
Anchored(start, requested, final, gravity) ==
    2 * start + (requested - final) * gravity

\* (mutant of Configure: the left and top borders are added for every
\* window gravity)
ConfigureAlwaysShifted(g) ==
    LET geometry_size == <<g.geometry.width - (g.borders.left + g.borders.right),
                           g.geometry.height - (g.borders.top + g.borders.bottom)>>
        x      == g.geometry.x + g.borders.left
        y      == g.geometry.y + g.borders.top
        width  == FinalWidth(g)
        height == FinalHeight(g)
    IN  IF <<width, height>> # geometry_size
        THEN [x |-> Anchored(x, geometry_size[1], width, g.on_resize.x),
              y |-> Anchored(y, geometry_size[2], height, g.on_resize.y),
              width |-> width, height |-> height]
        ELSE [x |-> 2 * x, y |-> 2 * y, width |-> width, height |-> height]

\* lines 586-631: the arguments of self._win.configure(x, y, width, height),
\* x and y in half pixels
Configure(g) ==
    LET geometry_size == <<g.geometry.width - (g.borders.left + g.borders.right),
                           g.geometry.height - (g.borders.top + g.borders.bottom)>>
        x      == IF IsStatic(g) THEN g.geometry.x + g.borders.left ELSE g.geometry.x
        y      == IF IsStatic(g) THEN g.geometry.y + g.borders.top ELSE g.geometry.y
        width  == FinalWidth(g)
        height == FinalHeight(g)
    IN  IF <<width, height>> # geometry_size
        THEN [x |-> Anchored(x, geometry_size[1], width, g.on_resize.x),
              y |-> Anchored(y, geometry_size[2], height, g.on_resize.y),
              width |-> width, height |-> height]
        ELSE [x |-> 2 * x, y |-> 2 * y, width |-> width, height |-> height]

\* lines 580-631: move_resize(geometry, on_resize) ends with the configure
\* request
MoveResize ==
    /\ geo.op = "move_resize" /\ geo.phase = "ready"
    /\ geo' = [geo EXCEPT !.phase = "done", !.configure = Configure(geo)]
    /\ UNCHANGED <<handlers, d_pc, event, win_handlers, wh_live, invoked,
                   exit_cause, call, cvars, event_mask>>

\* lines 128-136: Geometry(x, y, width, height, gravity); the gravity
\* argument is left at its default here
DefaultGravity == [x |-> 0, y |-> 0]

Geometry(x, y, width, height, gravity) ==
    [x |-> x - width * gravity.x, y |-> y - height * gravity.y,
     width |-> width, height |-> height]

\* (mutant of EffectiveGeometry: the right and bottom borders are left out)
EffectiveGeometryLeftTopOnly(g) ==
    LET x == IF g.adjust_geometry THEN g.raw.x - g.borders.left ELSE g.raw.x
        y == IF g.adjust_geometry THEN g.raw.y - g.borders.top ELSE g.raw.y
    IN  Geometry(x, y, g.raw.width + g.borders.left,
                 g.raw.height + g.borders.top, DefaultGravity)

\* lines 561-578: the value of the geometry property, from the raw geometry
\* of __geometry() and the borders of __borders()
EffectiveGeometry(g) ==
    LET x == IF g.adjust_geometry THEN g.raw.x - g.borders.left ELSE g.raw.x
        y == IF g.adjust_geometry THEN g.raw.y - g.borders.top ELSE g.raw.y
    IN  Geometry(x, y, g.raw.width + g.borders.left + g.borders.right,
                 g.raw.height + g.borders.top + g.borders.bottom, DefaultGravity)

\* lines 561-578: window.geometry is read
WindowGeometry ==
    /\ geo.op = "geometry" /\ geo.phase = "ready"
    /\ geo' = [geo EXCEPT !.phase = "done", !.result = EffectiveGeometry(geo)]
    /\ UNCHANGED <<handlers, d_pc, event, win_handlers, wh_live, invoked,
                   exit_cause, call, cvars, event_mask>>

\* lines 58-64: invert(vertical, horizontal). x is bound only when
\* horizontal is true and y only when vertical is true; Gravity(x, y) on
\* line 64 reads both, and reading an unbound local raises UnboundLocalError.
InvertResult(g) ==
    IF g.vertical /\ g.horizontal
    THEN [err |-> "none", x |-> 2 - g.gravity.x, y |-> 2 - g.gravity.y]
    ELSE [err |-> "UnboundLocalError", x |-> g.gravity.x, y |-> g.gravity.y]

\* lines 58-64: gravity.invert(vertical, horizontal) is called
Invert ==
    /\ geo.op = "invert" /\ geo.phase = "ready"
    /\ geo' = [geo EXCEPT !.phase = "done", !.result = InvertResult(geo)]
    /\ UNCHANGED <<handlers, d_pc, event, win_handlers, wh_live, invoked,
                   exit_cause, call, cvars, event_mask>>

\* ------------------------------------------------------------------ SpecGeom
\* the largest size, minimum and maximum hint of a move_resize call
MaxSize == 3

Sizes == 0 .. MaxSize

\* width_inc / height_inc values: absent (0), valid, and negative
Incs == {-2, 0, 1, 2, 3}

\* gravity components in halves: 0, 1/2, 1
GravityValues == {0, 1, 2}

\* the quantities of one axis of a move_resize call: requested size, the two
\* borders, current content size, hints and the anchor of that axis
AxisCases ==
    [req : Sizes, b1 : {0, 1}, b2 : {0, 1}, cur : {0, 1, 2},
     min : Sizes, max : Sizes, inc : Incs, base : {0, 1, 2}, g : GravityValues]

\* an axis whose hints constrain nothing
PlainAxis ==
    [req |-> 2, b1 |-> 0, b2 |-> 0, cur |-> 2,
     min |-> 0, max |-> 0, inc |-> 0, base |-> 0, g |-> 0]

\* horizontal and vertical quantities of the calls: equal on both axes, or
\* one axis ranging over every case with the other plain
Families == {"both", "horizontal", "vertical"}

Horizontal(a, family) == IF family = "vertical" THEN PlainAxis ELSE a

Vertical(a, family) == IF family = "horizontal" THEN PlainAxis ELSE a

\* the state before move_resize(Geometry(x, y, width, height), on_resize)
\* on a window with the given borders, current geometry and hints
MoveCase(h, v, win_gravity, present) ==
    [op |-> "move_resize", phase |-> "ready",
     geometry |-> [x |-> 10, y |-> 20, width |-> h.req, height |-> v.req],
     borders |-> [left |-> h.b1, right |-> h.b2, top |-> v.b1, bottom |-> v.b2],
     current |-> [width |-> h.cur, height |-> v.cur],
     hints |-> IF present
               THEN [present |-> TRUE, win_gravity |-> win_gravity,
                     min_width |-> h.min, min_height |-> v.min,
                     max_width |-> h.max, max_height |-> v.max,
                     width_inc |-> h.inc, height_inc |-> v.inc,
                     base_width |-> h.base, base_height |-> v.base]
               ELSE NoHints,
     on_resize |-> [x |-> h.g, y |-> v.g],
     configure |-> [x |-> 0, y |-> 0, width |-> 0, height |-> 0]]

WinGravities == {"NorthWestGravity", "StaticGravity"}

\* the state before window.geometry is read
GeometryCases ==
    [op : {"geometry"}, phase : {"ready"},
     raw : [x : {0, 100}, y : {0, 100},
            width : Sizes \cup {200}, height : Sizes \cup {150}],
     borders : [left : {0, 2}, right : {0, 2}, top : {0, 20}, bottom : {0, 2}],
     adjust_geometry : BOOLEAN,
     result : {[x |-> 0, y |-> 0, width |-> 0, height |-> 0]}]

\* the state before gravity.invert(vertical, horizontal)
InvertCases ==
    [op : {"invert"}, phase : {"ready"},
     gravity : [x : GravityValues, y : GravityValues],
     vertical : BOOLEAN, horizontal : BOOLEAN,
     result : {[err |-> "none", x |-> 0, y |-> 0]}]

InitGeom ==
    /\ handlers = [w \in {} |-> EmptyDict]
    /\ d_pc = "new"
    /\ event = NoEvent
    /\ win_handlers = EmptyDict
    /\ wh_live = FALSE
    /\ invoked = NoInvocation
    /\ exit_cause = "none"
    /\ call = NoCall
    /\ thr = [c \in Callers |-> IdleCaller]
    /\ base = handlers
    /\ batches = 0
    /\ event_mask = [w \in Windows |-> 0]
    /\ \/ \E a \in AxisCases, family \in Families,
               win_gravity \in WinGravities, present \in BOOLEAN :
               geo = MoveCase(Horizontal(a, family), Vertical(a, family),
                              win_gravity, present)
       \/ geo \in GeometryCases
       \/ geo \in InvertCases

NextGeom == MoveResize \/ WindowGeometry \/ Invert

SpecGeom == InitGeom /\ [][NextGeom]_vars

\* ------------------------------------------------------------------ SpecConc
\* register and unregister run by two caller threads, one statement at a
\* time (nothing in core.py locks self.__handlers). The dispatcher thread is
\* started by register but takes no step here.
MaxBatches == 1

\* the next position of a for loop over handler.types
Loop(todo, body, exit) == IF todo = {} THEN exit ELSE body

\* the call raises: it ends, whatever it has changed stays changed
Raise(c, cause) ==
    thr' = [thr EXCEPT ![c].pc = "done", ![c].err = cause, ![c].todo = {},
                       ![c].cur = "none"]

Goto(c, pc) == thr' = [thr EXCEPT ![c].pc = pc]

\* a caller thread calls register(w, h) or unregister(w, h)
BeginCall(c, op, w, h) ==
    /\ thr[c].pc = "idle"
    /\ thr' = [thr EXCEPT ![c] = [pc |-> IF op = "register" THEN "r226" ELSE "u242",
                                  op |-> op, w |-> w, h |-> h,
                                  todo |-> {}, cur |-> "none", err |-> "none"]]
    /\ UNCHANGED <<handlers, d_pc, event, win_handlers, wh_live, invoked,
                   exit_cause, call, base, batches, gvars>>

\* line 226: if not window.id in self.__handlers
R226(c) ==
    /\ thr[c].pc = "r226"
    /\ thr' = [thr EXCEPT
                 ![c].pc = IF thr[c].w \notin DOMAIN handlers THEN "r227"
                           ELSE Loop(HTypes(thr[c].h), "r229", "r231"),
                 ![c].todo = HTypes(thr[c].h)]
    /\ UNCHANGED <<handlers, d_pc, event, win_handlers, wh_live, invoked,
                   exit_cause, call, base, batches, gvars>>

\* line 227: self.__handlers[window.id] = {}
R227(c) ==
    /\ thr[c].pc = "r227"
    /\ handlers' = DictSet(handlers, thr[c].w, EmptyDict)
    /\ Goto(c, Loop(thr[c].todo, "r229", "r231"))
    /\ UNCHANGED <<d_pc, event, win_handlers, wh_live, invoked,
                   exit_cause, call, base, batches, gvars>>

\* lines 228-229: one turn of the loop, self.__handlers[window.id][type] = handler
R229(c, t) ==
    /\ thr[c].pc = "r229"
    /\ t \in thr[c].todo
    /\ IF thr[c].w \notin DOMAIN handlers
       THEN Raise(c, "KeyError") /\ UNCHANGED handlers
       ELSE /\ handlers' = DictSet(handlers, thr[c].w,
                                   DictSet(handlers[thr[c].w], t, thr[c].h))
            /\ thr' = [thr EXCEPT ![c].todo = @ \ {t},
                                  ![c].pc = Loop(thr[c].todo \ {t}, "r229", "r231")]
    /\ UNCHANGED <<d_pc, event, win_handlers, wh_live, invoked,
                   exit_cause, call, base, batches, gvars>>

\* line 231: if not self.isAlive()
R231(c) ==
    /\ thr[c].pc = "r231"
    /\ Goto(c, IF IsAlive THEN "r233" ELSE "r232")
    /\ UNCHANGED <<handlers, d_pc, event, win_handlers, wh_live, invoked,
                   exit_cause, call, base, batches, gvars>>

\* line 232: self.start()
R232(c) ==
    /\ thr[c].pc = "r232"
    /\ IF d_pc = "new"
       THEN d_pc' = "while" /\ Goto(c, "r233")
       ELSE Raise(c, "RuntimeError") /\ UNCHANGED d_pc
    /\ UNCHANGED <<handlers, event, win_handlers, wh_live, invoked,
                   exit_cause, call, base, batches, gvars>>

\* lines 233-234: return set([... self.__handlers[window.id].values()])
R233(c) ==
    /\ thr[c].pc = "r233"
    /\ IF thr[c].w \notin DOMAIN handlers
       THEN Raise(c, "KeyError")
       ELSE Goto(c, "done")
    /\ UNCHANGED <<handlers, d_pc, event, win_handlers, wh_live, invoked,
                   exit_cause, call, base, batches, gvars>>

\* lines 242, 245: which branch unregister takes
U242(c) ==
    /\ thr[c].pc = "u242"
    /\ thr' = [thr EXCEPT
                 ![c].pc = IF thr[c].w \notin DOMAIN handlers THEN "u251"
                           ELSE IF thr[c].h = None THEN "u244"
                           ELSE Loop(HTypes(thr[c].h), "u249", "u251"),
                 ![c].todo = IF thr[c].w \in DOMAIN handlers /\ thr[c].h # None
                             THEN HTypes(thr[c].h) ELSE {}]
    /\ UNCHANGED <<handlers, d_pc, event, win_handlers, wh_live, invoked,
                   exit_cause, call, base, batches, gvars>>

\* line 244: self.__handlers[window.id] = {}
U244(c) ==
    /\ thr[c].pc = "u244"
    /\ handlers' = DictSet(handlers, thr[c].w, EmptyDict)
    /\ Goto(c, "u251")
    /\ UNCHANGED <<d_pc, event, win_handlers, wh_live, invoked,
                   exit_cause, call, base, batches, gvars>>

\* lines 248-249: one turn of the loop, if type in self.__handlers[window.id]
U249(c, t) ==
    /\ thr[c].pc = "u249"
    /\ t \in thr[c].todo
    /\ IF thr[c].w \notin DOMAIN handlers
       THEN Raise(c, "KeyError")
       ELSE IF t \in DOMAIN handlers[thr[c].w]
       THEN thr' = [thr EXCEPT ![c].pc = "u250", ![c].cur = t, ![c].todo = @ \ {t}]
       ELSE thr' = [thr EXCEPT ![c].todo = @ \ {t},
                               ![c].pc = Loop(thr[c].todo \ {t}, "u249", "u251")]
    /\ UNCHANGED <<handlers, d_pc, event, win_handlers, wh_live, invoked,
                   exit_cause, call, base, batches, gvars>>

\* line 250: del self.__handlers[window.id][type]
U250(c) ==
    /\ thr[c].pc = "u250"
    /\ IF \/ thr[c].w \notin DOMAIN handlers
          \/ thr[c].cur \notin DOMAIN handlers[thr[c].w]
       THEN Raise(c, "KeyError") /\ UNCHANGED handlers
       ELSE /\ handlers' = DictSet(handlers, thr[c].w,
                                   DictDel(handlers[thr[c].w], thr[c].cur))
            /\ thr' = [thr EXCEPT ![c].cur = "none",
                                  ![c].pc = Loop(thr[c].todo, "u249", "u251")]
    /\ UNCHANGED <<d_pc, event, win_handlers, wh_live, invoked,
                   exit_cause, call, base, batches, gvars>>

\* line 251: if not self.__handlers[window.id]
U251(c) ==
    /\ thr[c].pc = "u251"
    /\ IF thr[c].w \notin DOMAIN handlers
       THEN Raise(c, "KeyError")
       ELSE Goto(c, IF handlers[thr[c].w] = EmptyDict THEN "u252" ELSE "u256")
    /\ UNCHANGED <<handlers, d_pc, event, win_handlers, wh_live, invoked,
                   exit_cause, call, base, batches, gvars>>

\* lines 252-254: del self.__handlers[window.id]; return []
U252(c) ==
    /\ thr[c].pc = "u252"
    /\ IF thr[c].w \notin DOMAIN handlers
       THEN Raise(c, "KeyError") /\ UNCHANGED handlers
       ELSE handlers' = DictDel(handlers, thr[c].w) /\ Goto(c, "done")
    /\ UNCHANGED <<d_pc, event, win_handlers, wh_live, invoked,
                   exit_cause, call, base, batches, gvars>>

\* lines 256-257: return set([... self.__handlers[window.id].values()])
U256(c) ==
    /\ thr[c].pc = "u256"
    /\ IF thr[c].w \notin DOMAIN handlers
       THEN Raise(c, "KeyError")
       ELSE Goto(c, "done")
    /\ UNCHANGED <<handlers, d_pc, event, win_handlers, wh_live, invoked,
                   exit_cause, call, base, batches, gvars>>

\* every call has returned or raised
AllReturned == \A c \in Callers : thr[c].pc \in {"idle", "done"}

\* the callers go on to their next calls
EndBatch ==
    /\ AllReturned
    /\ \E c \in Callers : thr[c].pc = "done"
    /\ batches < MaxBatches
    /\ batches' = batches + 1
    /\ base' = handlers
    /\ thr' = [c \in Callers |-> IdleCaller]
    /\ UNCHANGED <<handlers, d_pc, event, win_handlers, wh_live, invoked,
                   exit_cause, call, gvars>>

NextConc ==
    \/ \E c \in Callers, w \in Windows, h \in Handlers : BeginCall(c, "register", w, h)
    \/ \E c \in Callers, w \in Windows, h \in Handlers \cup {None} :
          BeginCall(c, "unregister", w, h)
    \/ \E c \in Callers : R226(c)
    \/ \E c \in Callers : R227(c)
    \/ \E c \in Callers, t \in Types : R229(c, t)
    \/ \E c \in Callers : R231(c)
    \/ \E c \in Callers : R232(c)
    \/ \E c \in Callers : R233(c)
    \/ \E c \in Callers : U242(c)
    \/ \E c \in Callers : U244(c)
    \/ \E c \in Callers, t \in Types : U249(c, t)
    \/ \E c \in Callers : U250(c)
    \/ \E c \in Callers : U251(c)
    \/ \E c \in Callers : U252(c)
    \/ \E c \in Callers : U256(c)
    \/ EndBatch

SpecConc == Init /\ [][NextConc]_vars

\* the registry a call of caller c leaves when it runs alone on registry reg
CallEffect(reg, c) ==
    IF thr[c].op = "register" THEN RegisterEffect(reg, thr[c].w, thr[c].h)
    ELSE UnregisterEffect(reg, thr[c].w, thr[c].h)

\* the registries that the returned calls leave in some sequential order
SequentialOutcomes ==
    LET made == {c \in Callers : thr[c].pc = "done"}
    IN  IF made = {} THEN {base}
        ELSE {CallEffect(CallEffect(base, c), d) :
                 <<c, d>> \in {p \in made \X made : made = {p[1], p[2]}}}

\* ------------------------------------------------------------------ claims
\* the step of __dispatch that calls handle_event
InvokeStep == d_pc = "l268" /\ invoked' # NoInvocation

\* the dispatch in progress began after the last register/unregister call returned
AfterCall == ~call.inflight

\* C1, registry: after register(w, h) the registry maps (w, t) to h for every
\* t in h.types, whatever handler was stored there before.
C1_Registry ==
    call.op = "register" =>
        /\ call.w \in DOMAIN handlers
        /\ \A t \in HTypes(call.h) :
              t \in DOMAIN handlers[call.w] /\ handlers[call.w][t] = call.h

\* C1, dispatch: an event (w, t) whose dispatch begins after register(w, h2),
\* t in h2.types, with no call in between, invokes h2.
C1_Dispatch ==
    (/\ InvokeStep
     /\ call.op = "register"
     /\ AfterCall
     /\ event.window = call.w
     /\ event.type \in HTypes(call.h)) => invoked'.handler = call.h

\* C1: register(w, h1) then register(w, h2) with a shared event type t leaves
\* h2 as the one handler of (w, t), and a later event (w, t) is delivered to
\* h2 and never to h1.
C1_SecondRegistrationReplaces == []C1_Registry /\ [][C1_Dispatch]_vars

\* h3 was registered for A and B of w1, then h1 replaced it for A, and an
\* event (w1, A) dispatched after that was delivered to h1.
C1_Witness ==
    /\ call.op = "register" /\ call.w = "w1" /\ call.h = "h1" /\ AfterCall
    /\ call.pre = ("A" :> "h3" @@ "B" :> "h3")
    /\ "w1" \in DOMAIN handlers
    /\ handlers["w1"] = ("A" :> "h1" @@ "B" :> "h3")
    /\ invoked = [handler |-> "h1", window |-> "w1", type |-> "A"]

\* the masks of the handlers stored for window w
StoredMasks(w) == {HMask(handlers[w][t]) : t \in DOMAIN handlers[w]}

\* C2, value: a call on w that returned, with w still in the registry,
\* returned the set of masks of the handlers stored for w after the call.
C2_Returned ==
    (call.op \in {"register", "unregister"} /\ call.err = "none"
        /\ call.w \in DOMAIN handlers) => call.ret = StoredMasks(call.w)

\* C2, scenario: with h1 (mask 1, types {A}) alone on w, register(w, h2)
\* (mask 2, types {B}) returns {1, 2}; then unregister(w, h1) returns {2}.
C2_Scenario ==
    \A w \in Windows :
        /\ (/\ w \in DOMAIN handlers
            /\ handlers[w] = ("A" :> "h1")
            /\ Register(w, "h2")
            /\ call'.err = "none") => call'.ret = {1, 2}
        /\ (/\ w \in DOMAIN handlers
            /\ handlers[w] = ("A" :> "h1" @@ "B" :> "h2")
            /\ Unregister(w, "h1")) => call'.ret = {2} /\ call'.err = "none"

\* C2: register and unregister (when the window keeps handlers) return
\* exactly the set of masks of the handlers stored for the window after the call.
C2_ReturnedMasks == []C2_Returned /\ [][C2_Scenario]_vars

\* unregister(w1, h1) returned {2}: h2 is what is left of h1 and h2 on w1.
C2_Witness ==
    /\ call.op = "unregister" /\ call.w = "w1" /\ call.h = "h1"
    /\ call.err = "none" /\ call.ret = {2}
    /\ call.pre = ("A" :> "h1" @@ "B" :> "h2")
    /\ "w1" \in DOMAIN handlers
    /\ handlers["w1"] = ("B" :> "h2")

\* C3, registry: unregister(w, None) on a window with entries removes the
\* window's entry and returns no mask.
C3_Registry ==
    (call.op = "unregister" /\ call.h = None /\ call.err = "none") =>
        call.w \notin DOMAIN handlers /\ call.ret = {}

\* C3, dispatch: no event for w whose dispatch begins after unregister(w, None),
\* with no call in between, invokes a handler.
C3_Dispatch ==
    (/\ call.op = "unregister" /\ call.h = None /\ call.err = "none"
     /\ AfterCall
     /\ d_pc = "l268"
     /\ event.window = call.w) => invoked' = NoInvocation

\* C3: unregister(w, None) removes window w entirely and returns an empty
\* mask collection; later events for w invoke no handler.
C3_UnregisterAll == []C3_Registry /\ [][C3_Dispatch]_vars

\* unregister(w1, None) returned and an event for w1 is being dispatched.
C3_Witness ==
    /\ call.op = "unregister" /\ call.w = "w1" /\ call.h = None
    /\ call.err = "none" /\ AfterCall
    /\ call.pre = ("A" :> "h1")
    /\ d_pc = "l261" /\ event = [window |-> "w1", type |-> "A"]
    /\ "w2" \in DOMAIN handlers

\* h is stored for no event type of w
NotRegistered(w, h) ==
    w \notin DOMAIN handlers \/ \A t \in DOMAIN handlers[w] : handlers[w][t] # h

\* C4: unregister(w, h) of a handler that is not registered for w raises
\* nothing and leaves the registry unchanged.
C4_UnregisterUnknownIsNoOp ==
    [][\A w \in Windows, h \in Handlers :
        (NotRegistered(w, h) /\ Unregister(w, h)) =>
            (call'.err = "none" /\ handlers' = handlers)]_vars

\* C5: whenever the registry is non-empty and the last register call
\* returned, the dispatch loop is running.
C5_LoopRunsWhileRegistered ==
    (DOMAIN handlers # {} /\ ~(call.op = "register" /\ call.err # "none")) =>
        LoopActive

\* C6: a register call made after the loop ended on an empty registry
\* raises nothing and leaves a dispatch loop running.
C6_Restartable ==
    [][\A w \in Windows, h \in Handlers :
        (d_pc = "stopped" /\ exit_cause = "empty" /\ Register(w, h)) =>
            (call'.err = "none" /\ LoopActive')]_vars

\* C7: a handler that raised for an event of w1 does not end the dispatch
\* loop while another window w2 is registered.
C7_HandlerErrorKeepsLoop ==
    ~(/\ d_pc = "stopped"
      /\ exit_cause = "HandlerError"
      /\ \E w2 \in DOMAIN handlers :
            w2 # invoked.window /\ handlers[w2] # EmptyDict)

\* C8: a dispatch step never fails on a window or event-type entry that an
\* unregister call removed meanwhile.
C8_DispatchNeverFails == exit_cause # "KeyError"

\* C10, invocation: the handler invoked for event e is the one the registry
\* maps (e.window, e.type) to when it is looked up.
C10_Invocation ==
    InvokeStep =>
        /\ event.window \in DOMAIN handlers
        /\ event.type \in DOMAIN handlers[event.window]
        /\ handlers[event.window][event.type] = invoked'.handler

\* C10, drop: an event found to have an unknown window (line 261) or no
\* entry for its type (line 265) is dropped: no invocation, no registry
\* change, and the loop goes on to the next event.
C10_Drop ==
    (\/ d_pc = "l261" /\ event.window \notin DOMAIN handlers
     \/ d_pc = "l265" /\ event.type \notin DOMAIN WinHandlers) =>
        (d_pc' \in {"pending", d_pc} /\ invoked' = NoInvocation)

\* C10: every handler invocation is the registry's entry for the event at
\* the time of the lookup, and unmatched events are dropped.
C10_InvokesRegistryEntry == [][C10_Invocation /\ C10_Drop]_vars

\* C9, atomicity: once every call has returned, the registry is the one
\* some sequential order of the same calls produces.
C9_Linearizable == AllReturned => handlers \in SequentialOutcomes

\* C9, in particular: two register calls for one unknown window with
\* handlers of disjoint event types leave the entries of both.
C9_BothRegistered ==
    (/\ \A c \in Callers : thr[c].pc = "done" /\ thr[c].op = "register"
     /\ thr["c1"].w = thr["c2"].w
     /\ thr["c1"].w \notin DOMAIN base
     /\ HTypes(thr["c1"].h) \cap HTypes(thr["c2"].h) = {}) =>
        /\ thr["c1"].w \in DOMAIN handlers
        /\ \A c \in Callers : \A t \in HTypes(thr[c].h) :
              t \in DOMAIN handlers[thr[c].w] /\ handlers[thr[c].w][t] = thr[c].h

\* C9: concurrent register/unregister calls behave atomically.
C9_CallsAreAtomic == C9_Linearizable /\ C9_BothRegistered

\* C11, termination: if from some point on the registry stays empty, the
\* dispatcher thread eventually is not running, for good.
C11_Stops == <>[](DOMAIN handlers = {}) => <>[](~IsAlive)

\* C11, no early stop: the emptiness check of line 215 does not leave the
\* loop when it finds the registry non-empty.
C11_StaysWhileRegistered ==
    (d_pc = "while" /\ DOMAIN handlers # {}) => d_pc' \notin {"l220", "stopped"}

\* C11: once the registry is empty for good and the event source is found
\* drained, the fairly scheduled dispatch loop stops; it does not stop at an
\* emptiness check that finds the registry non-empty.
C11_LoopTerminates == C11_Stops /\ [][C11_StaysWhileRegistered]_vars

\* the loop ran, the last handler of w1 was unregistered, the thread ended
C11_Witness ==
    /\ d_pc = "stopped" /\ exit_cause = "empty"
    /\ DOMAIN handlers = {}
    /\ call.op = "unregister" /\ call.err = "none" /\ call.pre = ("A" :> "h1")

\* C12: for every window, the event mask last set on it is the bitwise OR
\* of the masks of the handlers the registry stores for it, and 0 when the
\* registry stores none.
C12_MaskIsOrOfStored ==
    \A w \in Windows :
        event_mask[w] = IF w \in DOMAIN handlers THEN OrAll(Masks(handlers[w])) ELSE 0

\* the handler the registry reg holds for window w and event type t
Entry(reg, w, t) ==
    IF w \in DOMAIN reg /\ t \in DOMAIN reg[w] THEN reg[w][t] ELSE "absent"

\* the entries of reg and reg2 differ only for window w and types in ts
SameOutside(reg, reg2, w, ts) ==
    \A w2 \in Windows, t \in Types :
        (w2 # w \/ t \notin ts) => Entry(reg2, w2, t) = Entry(reg, w2, t)

\* the event types a call may touch: h.types, every type for unregister(w, None)
CallTypes(c) == IF c.h = None THEN Types ELSE HTypes(c.h)

\* C13: a step that changes the registry is a register(w, h) or an
\* unregister(w, h) call, and it leaves every registry entry (w2, t) with
\* w2 # w or t outside h.types as it was; unregister(w, None) leaves every
\* entry of every other window as it was.
C13_Frame ==
    [][handlers' # handlers =>
        /\ call'.op \in {"register", "unregister"}
        /\ SameOutside(handlers, handlers', call'.w, CallTypes(call'))]_vars

\* unregister(w1, h1) removed h1's entry of w1 while w1 kept h2 for type B
\* and w2 kept its handler
C13_Witness ==
    /\ call.op = "unregister" /\ call.w = "w1" /\ call.h = "h1"
    /\ call.pre = ("A" :> "h1" @@ "B" :> "h2")
    /\ "w1" \in DOMAIN handlers /\ handlers["w1"] = ("B" :> "h2")
    /\ "w2" \in DOMAIN handlers /\ handlers["w2"] # EmptyDict

\* move_resize has sent its configure request
Moved == geo.op = "move_resize" /\ geo.phase = "done"

\* min and max hints of an axis are both present and min <= max
Consistent(min, max) ==
    geo.hints.present /\ min > 0 /\ max > 0 /\ min <= max

Abs(k) == IF k < 0 THEN 0 - k ELSE k

\* C14 as stated: with min_width and max_width both present and
\* min_width <= max_width, the emitted content width is never below
\* min_width and never above max_width; likewise for height.
C14_WithinBounds ==
    Moved =>
        /\ Consistent(geo.hints.min_width, geo.hints.max_width) =>
              /\ geo.configure.width >= geo.hints.min_width
              /\ geo.configure.width <= geo.hints.max_width
        /\ Consistent(geo.hints.min_height, geo.hints.max_height) =>
              /\ geo.configure.height >= geo.hints.min_height
              /\ geo.configure.height <= geo.hints.max_height

\* C14, amended: with min_width and max_width both present and
\* min_width <= max_width, the emitted content width is never below
\* min_width; it is never above max_width when no width increment is
\* present, and with a width increment it stays below max_width plus the
\* size of the increment; likewise for height.
C14_WithinBoundsUpToIncrement ==
    Moved =>
        /\ Consistent(geo.hints.min_width, geo.hints.max_width) =>
              /\ geo.configure.width >= geo.hints.min_width
              /\ geo.hints.width_inc = 0 =>
                    geo.configure.width <= geo.hints.max_width
              /\ geo.hints.width_inc # 0 =>
                    geo.configure.width < geo.hints.max_width + Abs(geo.hints.width_inc)
        /\ Consistent(geo.hints.min_height, geo.hints.max_height) =>
              /\ geo.configure.height >= geo.hints.min_height
              /\ geo.hints.height_inc = 0 =>
                    geo.configure.height <= geo.hints.max_height
              /\ geo.hints.height_inc # 0 =>
                    geo.configure.height < geo.hints.max_height + Abs(geo.hints.height_inc)

\* min_width = 1 <= max_width = 2 with width_inc = 3: the width snapped to 0
\* is below the minimum, one increment is added and the emitted width 3 is
\* above the maximum
C14_Witness ==
    /\ Moved
    /\ Consistent(geo.hints.min_width, geo.hints.max_width)
    /\ geo.hints.min_width = 1 /\ geo.hints.max_width = 2
    /\ geo.hints.width_inc = 3 /\ geo.hints.base_width = 0
    /\ geo.configure.width = 3

\* C15: move_resize emits no configure request when the hints carry a
\* negative width_inc or height_inc (the call is to end with an error
\* instead). A zero increment is how the hints say that none is set.
C15_InvalidIncrementRejected ==
    Moved => ~(geo.hints.present
                /\ (geo.hints.width_inc < 0 \/ geo.hints.height_inc < 0))

\* the content size move_resize was asked for: requested size minus borders
RequestedContent ==
    [width  |-> geo.geometry.width - (geo.borders.left + geo.borders.right),
     height |-> geo.geometry.height - (geo.borders.top + geo.borders.bottom)]

\* the emitted content size is the requested content size
SizeKept ==
    /\ geo.configure.width = RequestedContent.width
    /\ geo.configure.height = RequestedContent.height

\* C16 as stated: if the final content size equals the requested content
\* size, the emitted position equals the requested position exactly.
C16_NoDrift ==
    (Moved /\ SizeKept) =>
        /\ geo.configure.x = 2 * geo.geometry.x
        /\ geo.configure.y = 2 * geo.geometry.y

\* C16, amended: if the final content size equals the requested content
\* size, the emitted position is the requested position, moved by the left
\* and top border when the hints declare static gravity.
C16_NoDriftFromStart ==
    (Moved /\ SizeKept) =>
        /\ geo.configure.x =
              2 * (geo.geometry.x + IF IsStatic(geo) THEN geo.borders.left ELSE 0)
        /\ geo.configure.y =
              2 * (geo.geometry.y + IF IsStatic(geo) THEN geo.borders.top ELSE 0)

\* a static-gravity window with left and top borders of 1 keeps the
\* requested size and is configured at (11, 21) for a request at (10, 20)
C16_Witness ==
    /\ Moved /\ SizeKept /\ IsStatic(geo)
    /\ geo.borders.left = 1 /\ geo.borders.top = 1
    /\ geo.geometry.x = 10 /\ geo.geometry.y = 20
    /\ geo.configure.x = 22 /\ geo.configure.y = 42

\* the hints carry a positive width increment
WidthIncrements == Moved /\ geo.hints.present /\ geo.hints.width_inc > 0

\* C17, emitted width: with width_inc = k > 0 and a nonzero base_width = b,
\* the emitted content width w has (w - b) % k = 0 whenever b <= w.
C17_Emitted ==
    (WidthIncrements /\ geo.hints.base_width # 0
        /\ geo.hints.base_width <= geo.configure.width) =>
        (geo.configure.width - geo.hints.base_width) % geo.hints.width_inc = 0

\* C17, snapping: the width before the below-minimum correction is
\* base + n*k for the largest n that does not take it above the clamped
\* width, base being base_width, or the current content width mod k when
\* base_width is absent; the emitted width is that width or one increment
\* more.
C17_Snapped ==
    WidthIncrements =>
        LET k    == geo.hints.width_inc
            b    == IF geo.hints.base_width # 0 THEN geo.hints.base_width
                    ELSE geo.current.width % k
            w    == SnappedWidth(geo)
        IN  /\ BaseWidth(geo) = b
            /\ \E n \in (0 - MaxSize - 2) .. MaxSize :
                  /\ w = b + n * k
                  /\ w <= ClampedWidth(geo)
                  /\ b + (n + 1) * k > ClampedWidth(geo)
            /\ geo.configure.width \in {w, w + k}

\* C17: move_resize respects width increments.
C17_RespectsIncrements == C17_Emitted /\ C17_Snapped

\* with width_inc = 2, base_width = 1 and no other hint, a requested content
\* width of 2 is snapped down to 1 = 1 + 0*2
C17_Witness ==
    /\ WidthIncrements
    /\ geo.hints.width_inc = 2 /\ geo.hints.base_width = 1
    /\ geo.hints.min_width = 0 /\ geo.hints.max_width = 0
    /\ RequestedContent.width = 2
    /\ geo.configure.width = 1

\* C18: when the requested width and height are not negative, the content
\* width and height of the configure request are not negative.
C18_NeverNegative ==
    (Moved /\ geo.geometry.width >= 0 /\ geo.geometry.height >= 0) =>
        (geo.configure.width >= 0 /\ geo.configure.height >= 0)

\* window.geometry has been read
GeometryRead == geo.op = "geometry" /\ geo.phase = "done"

\* C19, general: the width and height include the border totals and the
\* position is the raw position, moved left and up by the left and top
\* border when the adjust quirk is set.
C19_IncludesBorders ==
    GeometryRead =>
        /\ geo.result.width = geo.raw.width + geo.borders.left + geo.borders.right
        /\ geo.result.height = geo.raw.height + geo.borders.top + geo.borders.bottom
        /\ geo.result.x =
              IF geo.adjust_geometry THEN geo.raw.x - geo.borders.left ELSE geo.raw.x
        /\ geo.result.y =
              IF geo.adjust_geometry THEN geo.raw.y - geo.borders.top ELSE geo.raw.y

\* C19, zero borders: with all borders 0 and no adjust quirk the result
\* equals the raw geometry.
C19_ZeroBorders ==
    (GeometryRead /\ ~geo.adjust_geometry
        /\ geo.borders = [left |-> 0, right |-> 0, top |-> 0, bottom |-> 0]) =>
        geo.result = geo.raw

\* raw geometry (100, 100, 200, 150) with borders left=2, right=2, top=20,
\* bottom=2 and no adjust quirk
C19_ExampleCase ==
    /\ GeometryRead /\ ~geo.adjust_geometry
    /\ geo.raw = [x |-> 100, y |-> 100, width |-> 200, height |-> 150]
    /\ geo.borders = [left |-> 2, right |-> 2, top |-> 20, bottom |-> 2]

\* C19, example: that case gives (100, 100, 204, 172).
C19_Example ==
    C19_ExampleCase =>
        geo.result = [x |-> 100, y |-> 100, width |-> 204, height |-> 172]

\* C19: Window.geometry returns the raw geometry grown by the borders.
C19_EffectiveGeometry == C19_IncludesBorders /\ C19_ZeroBorders /\ C19_Example

\* the example has been computed
C19_Witness ==
    /\ C19_ExampleCase
    /\ geo.result = [x |-> 100, y |-> 100, width |-> 204, height |-> 172]

\* C20: for every combination of the two flags, invert(vertical, horizontal)
\* returns without error a Gravity with y = 1 - y when vertical is set and y
\* unchanged otherwise, x = 1 - x when horizontal is set and x unchanged
\* otherwise (components in halves: 1 is written 2).
C20_InvertFlipsSelectedAxes ==
    (geo.op = "invert" /\ geo.phase = "done") =>
        /\ geo.result.err = "none"
        /\ geo.result.y = IF geo.vertical THEN 2 - geo.gravity.y ELSE geo.gravity.y
        /\ geo.result.x = IF geo.horizontal THEN 2 - geo.gravity.x ELSE geo.gravity.x

\* the vertical quantities of the call equal the horizontal ones
Mirrored ==
    /\ geo.geometry.height = geo.geometry.width
    /\ geo.borders.top + geo.borders.bottom = geo.borders.left + geo.borders.right
    /\ geo.current.height = geo.current.width
    /\ geo.hints.min_height = geo.hints.min_width
    /\ geo.hints.max_height = geo.hints.max_width
    /\ geo.hints.height_inc = geo.hints.width_inc
    /\ geo.hints.base_height = geo.hints.base_width

\* C21: when the vertical quantities equal the horizontal ones (requested
\* size, border totals, current size, min, max, increment and base hints),
\* the emitted height equals the emitted width.
C21_HeightMirrorsWidth ==
    (Moved /\ Mirrored) => geo.configure.height = geo.configure.width

\* the position move_resize starts from: the requested position, plus the
\* left and top border when the hints declare static gravity
StartPosition ==
    [x |-> geo.geometry.x + IF IsStatic(geo) THEN geo.borders.left ELSE 0,
     y |-> geo.geometry.y + IF IsStatic(geo) THEN geo.borders.top ELSE 0]

\* C22: the anchor point stays where it was: emitted x + final width * ax
\* equals start x + requested content width * ax, and likewise for y, height
\* and ay (positions in half pixels, anchors in halves).
C22_AnchorFixed ==
    Moved =>
        /\ geo.configure.x + geo.configure.width * geo.on_resize.x
              = 2 * StartPosition.x + RequestedContent.width * geo.on_resize.x
        /\ geo.configure.y + geo.configure.height * geo.on_resize.y
              = 2 * StartPosition.y + RequestedContent.height * geo.on_resize.y

\* max_width = 2 cuts a requested content width of 3 to 2 under the anchor
\* ax = 1/2: the window is configured half a pixel to the right, at 10.5
C22_Witness ==
    /\ Moved /\ ~IsStatic(geo)
    /\ geo.hints.max_width = 2 /\ geo.hints.width_inc = 0
    /\ RequestedContent.width = 3 /\ geo.configure.width = 2
    /\ geo.on_resize.x = 1
    /\ geo.geometry.x = 10 /\ geo.configure.x = 21

\* min and max hints of an axis are both present with min > max, and the
\* axis has no increment
MinAboveMax(min, max, inc) ==
    geo.hints.present /\ min > 0 /\ max > 0 /\ min > max /\ inc = 0

\* C23: with min_width and max_width both present, min_width > max_width
\* and no width increment, the emitted content width is min_width whatever
\* width was requested; likewise for height.
C23_MinWinsOverMax ==
    Moved =>
        /\ MinAboveMax(geo.hints.min_width, geo.hints.max_width, geo.hints.width_inc)
              => geo.configure.width = geo.hints.min_width
        /\ MinAboveMax(geo.hints.min_height, geo.hints.max_height, geo.hints.height_inc)
              => geo.configure.height = geo.hints.min_height

\* min_width = 3 > max_width = 1: a requested content width of 2 is cut to 1
\* by the max clamp and raised to 3 by the min clamp
C23_Witness ==
    /\ Moved
    /\ MinAboveMax(geo.hints.min_width, geo.hints.max_width, geo.hints.width_inc)
    /\ geo.hints.min_width = 3 /\ geo.hints.max_width = 1
    /\ RequestedContent.width = 2
    /\ geo.configure.width = 3

\* C24: no window id in the registry maps to an empty handler map, so a
\* window id is in the registry exactly when a handler is stored for it and
\* the registry is empty exactly when no handler is registered.
C24_NoEmptyHandlerMap ==
    \A w \in DOMAIN handlers : handlers[w] # EmptyDict

====
